---- MODULE Spec2Model ----
(***************************************************************************)
(* A model of cli-tracker-rs: the line parsers of src/history.rs and       *)
(* src/main.rs, the directory validation, and get_history_entries, which   *)
(* reads the primary log ~/.cli_stats_log and falls back to ~/.zsh_history.*)
(*                                                                         *)
(* A Rust &str is modelled as a sequence of one-character strings, an      *)
(* Option<T> as a sequence of length 0 (None) or 1 (Some).                 *)
(***************************************************************************)
EXTENDS Integers, Sequences, FiniteSets, TLC

VARIABLES
    line,      \* SpecLine: the &str handed to a line parser / validator
    fn,        \* SpecLine: which function has been applied ("none" before)
    out,       \* SpecLine: the Option<HistoryEntry> a parser returned
    valid,     \* SpecLine: the bool is_valid_directory returned
    home,      \* Spec: whether home::home_dir() is Some
    primary,   \* Spec: ~/.cli_stats_log as File::open finds it
    fallback,  \* Spec: ~/.zsh_history as File::open finds it
    opened,    \* Spec: the files File::open has been called on, in order
    pc,        \* Spec: position inside get_history_entries
    pos,       \* Spec: number of lines the reader has consumed
    entries,   \* Spec: the Vec<HistoryEntry> collected so far
    result,    \* Spec: "none" while running, then "Ok" or "Err"
    tz,            \* the local time zone's offset from UTC, in seconds
    term,          \* "raw" while the alternate screen, raw mode and hidden cursor are held
    ventries,      \* SpecViewer: the `entries` run_interactive_viewer is given
    current_index, \* SpecViewer: the list selection
    view_mode,     \* SpecViewer: None in list mode, Some(index) in detail mode
    vpc,           \* SpecViewer: position inside run_interactive_viewer
    screen,        \* SpecViewer: what the last render computed and drew
    sentries,      \* SpecStats: the `entries` display_stats is given
    now,           \* SpecStats: chrono::Local::now(), in seconds since the epoch
    week_offset,   \* SpecStats: -1 = lifetime stats, 0 = current week, 1 = last week, ...
    spc,           \* SpecStats: position inside display_stats
    stats          \* SpecStats: what the last iteration computed and drew

vars == <<line, fn, out, valid, home, primary, fallback, opened, pc, pos, entries, result,
          tz, term, ventries, current_index, view_mode, vpc, screen,
          sentries, now, week_offset, spc, stats>>

lineVars == <<line, fn, out, valid>>

fileVars == <<home, primary, fallback, opened, pc, pos, entries, result>>

viewVars == <<ventries, current_index, view_mode, vpc, screen>>

statVars == <<sentries, now, week_offset, spc, stats>>

uiVars == <<tz, term, viewVars, statVars>>

(***************************************************************************)
(* Bounds of the model.                                                    *)
(***************************************************************************)
\* Generated lines are concatenations of at most MaxFrags fragments.
MaxFrags == 4

\* The primary log and the fallback history file hold at most MaxLines
\* lines in total.
MaxLines == 3

(***************************************************************************)
(* Option<T>.                                                              *)
(***************************************************************************)
None == <<>>

Some(x) == <<x>>

(***************************************************************************)
(* str helpers, as the Rust standard library computes them.                *)
(***************************************************************************)
\* char::is_whitespace, on the characters the model's lines hold
IsWhite(c) == c \in {" ", "\t"}

\* char::is_digit(10)
IsDigit(c) == c \in {"0", "1", "2", "3", "4", "5", "6", "7", "8", "9"}

RECURSIVE TrimStart(_)
TrimStart(s) ==
    IF s # <<>> /\ IsWhite(Head(s)) THEN TrimStart(Tail(s)) ELSE s

RECURSIVE TrimEnd(_)
TrimEnd(s) ==
    IF s # <<>> /\ IsWhite(s[Len(s)]) THEN TrimEnd(SubSeq(s, 1, Len(s) - 1)) ELSE s

\* str::trim
Trim(s) == TrimEnd(TrimStart(s))

\* str::starts_with
StartsWith(s, p) == Len(s) >= Len(p) /\ SubSeq(s, 1, Len(p)) = p

\* str::strip_prefix, for a string that starts with p
StripPrefix(s, p) == SubSeq(s, Len(p) + 1, Len(s))

\* str::contains
RECURSIVE Contains(_, _)
Contains(s, p) ==
    IF Len(s) < Len(p) THEN FALSE
    ELSE IF StartsWith(s, p) THEN TRUE
    ELSE Contains(Tail(s), p)

\* str::find(char): the index of the first c in s, 0 when there is none
RECURSIVE FindFrom(_, _, _)
FindFrom(s, c, i) ==
    IF i > Len(s) THEN 0
    ELSE IF s[i] = c THEN i
    ELSE FindFrom(s, c, i + 1)

Find(s, c) == FindFrom(s, c, 1)

\* str::splitn(n, c), n >= 1: at most n parts, the last one holding the rest
RECURSIVE SplitN(_, _, _)
SplitN(n, s, c) ==
    LET i == Find(s, c)
    IN  IF n <= 1 \/ i = 0 THEN <<s>>
        ELSE <<SubSeq(s, 1, i - 1)>> \o SplitN(n - 1, SubSeq(s, i + 1, Len(s)), c)

\* str::split(c): one part more than there are occurrences of c
Split(s, c) == SplitN(Len(s) + 1, s, c)

\* [&str]::join(sep)
RECURSIVE Join(_, _)
Join(parts, sep) ==
    IF parts = <<>> THEN <<>>
    ELSE IF Len(parts) = 1 THEN parts[1]
    ELSE parts[1] \o sep \o Join(Tail(parts), sep)

DigitVal(c) ==
    CASE c = "0" -> 0 [] c = "1" -> 1 [] c = "2" -> 2 [] c = "3" -> 3
      [] c = "4" -> 4 [] c = "5" -> 5 [] c = "6" -> 6 [] c = "7" -> 7
      [] c = "8" -> 8 [] c = "9" -> 9

RECURSIVE DecVal(_)
DecVal(s) ==
    IF s = <<>> THEN 0
    ELSE DecVal(SubSeq(s, 1, Len(s) - 1)) * 10 + DigitVal(s[Len(s)])

RECURSIVE StripZeros(_)
StripZeros(s) == IF s # <<>> /\ Head(s) = "0" THEN StripZeros(Tail(s)) ELSE s

\* a <= b for two digit strings of the same length
RECURSIVE DigitsLeq(_, _)
DigitsLeq(a, b) ==
    IF a = <<>> THEN TRUE
    ELSE IF DigitVal(Head(a)) < DigitVal(Head(b)) THEN TRUE
    ELSE IF DigitVal(Head(a)) > DigitVal(Head(b)) THEN FALSE
    ELSE DigitsLeq(Tail(a), Tail(b))

\* the decimal digits of i64::MAX, 9223372036854775807
I64MaxDigits ==
    <<"9", "2", "2", "3", "3", "7", "2", "0", "3", "6", "8", "5", "4", "7", "7", "5", "8", "0", "7">>

\* the decimal digits of -i64::MIN, 9223372036854775808
I64MinDigits ==
    <<"9", "2", "2", "3", "3", "7", "2", "0", "3", "6", "8", "5", "4", "7", "7", "5", "8", "0", "8">>

\* str::parse::<i64>: an optional sign, then one or more digits, in range.
\* [ok |-> FALSE] is Err; val is read only when ok.
ParseI64(s) ==
    LET signed == s # <<>> /\ Head(s) \in {"+", "-"}
        neg    == s # <<>> /\ Head(s) = "-"
        body   == IF signed THEN Tail(s) ELSE s
        sig    == StripZeros(body)
        limit  == IF neg THEN I64MinDigits ELSE I64MaxDigits
        fits   == \/ Len(sig) < Len(limit)
                  \/ Len(sig) = Len(limit) /\ DigitsLeq(sig, limit)
    IN  IF body # <<>> /\ (\A i \in 1..Len(body) : IsDigit(body[i])) /\ fits
        THEN [ok |-> TRUE, val |-> IF neg THEN 0 - DecVal(sig) ELSE DecVal(sig)]
        ELSE [ok |-> FALSE, val |-> 0]

(***************************************************************************)
(* HistoryEntry and the parsers of src/history.rs.                         *)
(***************************************************************************)
HistoryEntry(timestamp, command, directory) ==
    [timestamp |-> timestamp, command |-> command, directory |-> directory,
     duration |-> None, exit_code |-> None]

\* is_valid_directory without the `github.com` exclusion.
is_valid_directory_no_github(path) ==
    IF path = <<>> THEN FALSE
    ELSE IF StartsWith(path, <<"/">>) \/ StartsWith(path, <<"~">>)
         THEN ~Contains(path, <<":", "/", "/">>)
         ELSE FALSE

is_valid_directory(path) ==
    IF path = <<>> THEN FALSE
    ELSE IF StartsWith(path, <<"/">>) \/ StartsWith(path, <<"~">>)
         THEN IF Contains(path, <<":", "/", "/">>)
                    \/ Contains(path, <<"g", "i", "t", "h", "u", "b", ".", "c", "o", "m">>)
              THEN FALSE
              ELSE TRUE
         ELSE FALSE

\* `if is_valid_directory(dir_str) { Some(dir_str.to_string()) } else { None }`
ValidatedDir(dir_str) ==
    IF is_valid_directory(dir_str) THEN Some(dir_str) ELSE None

\* PlainTier skipping every line: no last resort.
PlainTierSkips(l) == None

\* The last resort of parse_cli_stats_line: the whole trimmed line is the
\* command, timestamp 0.
PlainTier(l) ==
    LET command == Trim(l)
    IN  IF command # <<>> THEN Some(HistoryEntry(0, command, None)) ELSE None

parse_history_line(l) ==
    IF StartsWith(l, <<":", " ">>)
    THEN LET parts == SplitN(3, l, ";")
         IN  IF Len(parts) < 2 THEN None
             ELSE IF ~StartsWith(parts[1], <<":", " ">>) THEN None
             ELSE LET ts_part   == Trim(StripPrefix(parts[1], <<":", " ">>))
                      timestamp == ParseI64(SplitN(2, ts_part, ":")[1])
                      command   == Trim(parts[2])
                  IN  IF ~timestamp.ok THEN None
                      ELSE IF command # <<>>
                           THEN Some(HistoryEntry(timestamp.val, command, None))
                           ELSE None
    ELSE LET command == Trim(l)
         IN  IF command # <<>> THEN Some(HistoryEntry(0, command, None)) ELSE None

\* A tier of parse_cli_stats_line either returns from the function
\* (returned, with the value) or falls through to the code below it.
Return(v) == [returned |-> TRUE, value |-> v]

FallThrough == [returned |-> FALSE, value |-> None]

\* PipeTier with `.ok()?` replaced by a fall-through on a bad timestamp.
PipeTierFallsThrough(l) ==
    LET pipe_parts == Split(l, "|")
    IN  IF Len(pipe_parts) = 3 /\ ParseI64(pipe_parts[1]).ok /\ pipe_parts[2] # <<>>
        THEN Return(Some(HistoryEntry(ParseI64(pipe_parts[1]).val, pipe_parts[2],
                                      ValidatedDir(Trim(pipe_parts[3])))))
        ELSE FallThrough

\* Pipe-delimited tier: "timestamp|command|directory".
PipeTier(l) ==
    LET pipe_parts == Split(l, "|")
    IN  IF Len(pipe_parts) = 3
        THEN LET timestamp == ParseI64(pipe_parts[1])
                 command   == pipe_parts[2]
                 dir_str   == Trim(pipe_parts[3])
             IN  IF ~timestamp.ok THEN Return(None)
                 ELSE IF command # <<>>
                      THEN Return(Some(HistoryEntry(timestamp.val, command, ValidatedDir(dir_str))))
                      ELSE FallThrough
        ELSE FallThrough

\* Colon-delimited tier: "timestamp:command:directory".
ColonTier(l) ==
    IF ~StartsWith(l, <<":", " ">>)
    THEN LET parts == SplitN(3, l, ":")
         IN  IF Len(parts) >= 3 /\ (\A i \in 1..Len(parts[1]) : IsDigit(parts[1][i]))
             THEN LET timestamp     == ParseI64(parts[1])
                      dir_str       == Trim(parts[Len(parts)])
                      command_parts == SubSeq(parts, 2, Len(parts) - 1)
                      command       == Trim(Join(command_parts, <<":">>))
                  IN  IF ~timestamp.ok THEN Return(None)
                      ELSE IF command # <<>>
                           THEN Return(Some(HistoryEntry(timestamp.val, command, ValidatedDir(dir_str))))
                           ELSE FallThrough
             ELSE FallThrough
    ELSE FallThrough

\* Extended-history tier: ": timestamp:0;command[:directory]".
ZshTier(l) ==
    LET timestamp_part == StripPrefix(l, <<":", " ">>)
        parts          == SplitN(2, timestamp_part, ";")
    IN  IF Len(parts) < 2 THEN None
        ELSE LET ts_parts  == SplitN(2, parts[1], ":")
                 timestamp == ParseI64(ts_parts[1])
                 cmd_dir   == SplitN(2, parts[2], ":")
                 command   == cmd_dir[1]
                 directory == IF Len(cmd_dir) > 1 THEN ValidatedDir(Trim(cmd_dir[2])) ELSE None
             IN  IF ~timestamp.ok THEN None
                 ELSE IF command # <<>>
                      THEN Some(HistoryEntry(timestamp.val, command, directory))
                      ELSE None

parse_cli_stats_line(l) ==
    LET pipe == PipeTier(l)
    IN  IF pipe.returned THEN pipe.value
        ELSE LET colon == ColonTier(l)
             IN  IF colon.returned THEN colon.value
                 ELSE IF StartsWith(l, <<":", " ">>) THEN ZshTier(l)
                 ELSE PlainTier(l)

(***************************************************************************)
(* The parsers of the same names in src/main.rs.                           *)
(***************************************************************************)
main_parse_history_line(l) ==
    LET zsh   == StartsWith(l, <<":", " ">>)
        parts == SplitN(3, l, ";")
        ts    == ParseI64(SplitN(2, Trim(StripPrefix(parts[1], <<":", " ">>)), ":")[1])
    IN  IF zsh /\ Len(parts) < 2 THEN None
        ELSE IF zsh /\ ~StartsWith(parts[1], <<":", " ">>) THEN None
        ELSE IF zsh /\ ~ts.ok THEN None
        ELSE LET timestamp     == IF zsh THEN ts.val ELSE 0
                 command_part  == IF zsh THEN parts[2] ELSE l
                 clean_command == Trim(command_part)
                 directory     == IF StartsWith(clean_command, <<"c", "d", " ">>)
                                  THEN Some(Trim(StripPrefix(clean_command, <<"c", "d", " ">>)))
                                  ELSE None
             IN  IF clean_command # <<>>
                 THEN Some(HistoryEntry(timestamp, clean_command, directory))
                 ELSE None

main_parse_cli_stats_line(l) ==
    IF StartsWith(l, <<":", " ">>)
    THEN LET timestamp_part == StripPrefix(l, <<":", " ">>)
             parts          == SplitN(2, timestamp_part, ";")
         IN  IF Len(parts) < 2 THEN None
             ELSE LET ts_parts      == SplitN(2, parts[1], ":")
                      timestamp     == ParseI64(ts_parts[1])
                      cmd_dir_parts == SplitN(2, parts[2], ":")
                      command       == cmd_dir_parts[1]
                      directory     == IF Len(cmd_dir_parts) > 1
                                       THEN Some(cmd_dir_parts[2])
                                       ELSE None
                  IN  IF ~timestamp.ok THEN None
                      ELSE IF command # <<>>
                           THEN Some(HistoryEntry(timestamp.val, command, directory))
                           ELSE None
    ELSE LET command == Trim(l)
         IN  IF command # <<>> THEN Some(HistoryEntry(0, command, None)) ELSE None

(***************************************************************************)
(* Input lines.                                                            *)
(***************************************************************************)
\* "1700000000|ls -la|/home/u"
ScenarioLine1 ==
    <<"1", "7", "0", "0", "0", "0", "0", "0", "0", "0", "|", "l", "s", " ", "-", "l", "a", "|", "/", "h", "o", "m", "e", "/", "u">>

\* "bad line with no structure @@"
ScenarioLine2 ==
    <<"b", "a", "d", " ", "l", "i", "n", "e", " ", "w", "i", "t", "h", " ", "n", "o", " ", "s", "t", "r", "u", "c", "t", "u", "r", "e", " ", "@", "@">>

\* ": 1700003600:0;cd /tmp:/tmp"
ScenarioLine3 ==
    <<":", " ", "1", "7", "0", "0", "0", "0", "3", "6", "0", "0", ":", "0", ";", "c", "d", " ", "/", "t", "m", "p", ":", "/", "t", "m", "p">>

\* "ls -la"
CmdLsLa ==
    <<"l", "s", " ", "-", "l", "a">>

\* "cd /tmp"
CmdCdTmp ==
    <<"c", "d", " ", "/", "t", "m", "p">>

\* "123| |/tmp"
ExWhitePipe ==
    <<"1", "2", "3", "|", " ", "|", "/", "t", "m", "p">>

\* "123|  ls  |/tmp"
ExPaddedPipe ==
    <<"1", "2", "3", "|", " ", " ", "l", "s", " ", " ", "|", "/", "t", "m", "p">>

\* ": 123:0; :/tmp"
ExWhiteZsh ==
    <<":", " ", "1", "2", "3", ":", "0", ";", " ", ":", "/", "t", "m", "p">>

\* "123:echo a:b:/home/u"
ExColonLine ==
    <<"1", "2", "3", ":", "e", "c", "h", "o", " ", "a", ":", "b", ":", "/", "h", "o", "m", "e", "/", "u">>

\* "echo a:b"
CmdEchoAB ==
    <<"e", "c", "h", "o", " ", "a", ":", "b">>

\* "/home/u"
DirHomeU ==
    <<"/", "h", "o", "m", "e", "/", "u">>

\* "a && b"
ExCompoundPlain ==
    <<"a", " ", "&", "&", " ", "b">>

\* ": 1700003600:0;a && b"
ExCompoundZsh ==
    <<":", " ", "1", "7", "0", "0", "0", "0", "3", "6", "0", "0", ":", "0", ";", "a", " ", "&", "&", " ", "b">>

\* "cd foo"
ExCdRelative ==
    <<"c", "d", " ", "f", "o", "o">>

\* "/Users/x/proj"
ExDirUsers ==
    <<"/", "U", "s", "e", "r", "s", "/", "x", "/", "p", "r", "o", "j">>

\* "~/proj"
ExDirHome ==
    <<"~", "/", "p", "r", "o", "j">>

\* The lines and paths the specification's sentences name.
NamedLines ==
    {ScenarioLine1, ScenarioLine2, ScenarioLine3, ExWhitePipe, ExPaddedPipe,
     ExWhiteZsh, ExColonLine, ExCompoundPlain, ExCompoundZsh, ExCdRelative,
     ExDirUsers, ExDirHome}

\* The pieces generated lines are put together from: a digit, a letter, a
\* blank, the delimiters of the three formats, the path starts, the `&&`
\* operator, a well-formed extended-history head and the `github.com`
\* substring that is_valid_directory looks for.
Fragments ==
    {<<"1">>, <<"a">>, <<" ">>, <<"|">>, <<":">>, <<";">>, <<"/">>, <<"~">>,
     <<"&", "&">>,
     <<":", " ", "1", ":", "0", ";">>,
     <<"g", "i", "t", "h", "u", "b", ".", "c", "o", "m">>}

RECURSIVE FragLines(_)
FragLines(n) ==
    IF n = 0 THEN {<<>>}
    ELSE LET shorter == FragLines(n - 1)
         IN  shorter \cup {s \o f : s \in shorter, f \in Fragments}

LineInputs == FragLines(MaxFrags) \cup NamedLines

(***************************************************************************)
(* SpecLine: one input line, and one of the line functions applied to it.  *)
(***************************************************************************)
FileIdle ==
    /\ home = TRUE
    /\ primary = "unopened"
    /\ fallback = "unopened"
    /\ opened = <<>>
    /\ pc = "idle"
    /\ pos = 0
    /\ entries = <<>>
    /\ result = "none"

\* The interactive viewer is not running.
ViewIdle ==
    /\ ventries = <<>>
    /\ current_index = 0
    /\ view_mode = None
    /\ vpc = "idle"
    /\ screen = [kind |-> "blank"]

\* The stats view is not running.
StatsIdle ==
    /\ sentries = <<>>
    /\ now = 0
    /\ week_offset = 0 - 1
    /\ spc = "idle"
    /\ stats = [kind |-> "blank"]

UiIdle ==
    /\ tz = 0
    /\ term = "normal"
    /\ ViewIdle
    /\ StatsIdle

InitLine ==
    /\ line \in LineInputs
    /\ fn = "none"
    /\ out = None
    /\ valid = FALSE
    /\ FileIdle
    /\ UiIdle

CallParseCliStatsLine ==
    /\ fn = "none"
    /\ fn' = "parse_cli_stats_line"
    /\ out' = parse_cli_stats_line(line)
    /\ UNCHANGED <<line, valid>>
    /\ UNCHANGED <<fileVars, uiVars>>

CallParseHistoryLine ==
    /\ fn = "none"
    /\ fn' = "parse_history_line"
    /\ out' = parse_history_line(line)
    /\ UNCHANGED <<line, valid>>
    /\ UNCHANGED <<fileVars, uiVars>>

CallMainParseCliStatsLine ==
    /\ fn = "none"
    /\ fn' = "main_parse_cli_stats_line"
    /\ out' = main_parse_cli_stats_line(line)
    /\ UNCHANGED <<line, valid>>
    /\ UNCHANGED <<fileVars, uiVars>>

CallMainParseHistoryLine ==
    /\ fn = "none"
    /\ fn' = "main_parse_history_line"
    /\ out' = main_parse_history_line(line)
    /\ UNCHANGED <<line, valid>>
    /\ UNCHANGED <<fileVars, uiVars>>

CallIsValidDirectory ==
    /\ fn = "none"
    /\ fn' = "is_valid_directory"
    /\ valid' = is_valid_directory(line)
    /\ UNCHANGED <<line, out>>
    /\ UNCHANGED <<fileVars, uiVars>>

NextLine ==
    \/ CallParseCliStatsLine
    \/ CallParseHistoryLine
    \/ CallMainParseCliStatsLine
    \/ CallMainParseHistoryLine
    \/ CallIsValidDirectory

SpecLine == InitLine /\ [][NextLine]_vars

(***************************************************************************)
(* Spec: get_history_entries of src/history.rs over the two files.         *)
(*                                                                         *)
(* A file is [status, lines]: status "ok" when File::open succeeds,        *)
(* "missing" or "denied" when it fails; lines is what BufRead::lines()     *)
(* yields, each an io::Result<String>: [ok |-> TRUE, text] or, for a line  *)
(* that is not valid UTF-8, [ok |-> FALSE].                                *)
(***************************************************************************)
OkLine(text) == [ok |-> TRUE, text |-> text]

ErrLine == [ok |-> FALSE, text |-> <<>>]

\* "x|ls|/tmp": three pipe fields, the first not an integer
ExBadTsPipe ==
    <<"x", "|", "l", "s", "|", "/", "t", "m", "p">>

\* "  ": a blank line
ExBlank ==
    <<" ", " ">>

PrimaryLineChoices ==
    {OkLine(ScenarioLine1), OkLine(ScenarioLine2), OkLine(ScenarioLine3),
     OkLine(ExBadTsPipe), OkLine(ExBlank), ErrLine}

FallbackLineChoices ==
    {OkLine(ScenarioLine3), OkLine(ScenarioLine1), OkLine(ExColonLine),
     OkLine(ExBlank), ErrLine}

SeqsUpTo(S, n) == UNION {[1..k -> S] : k \in 0..n}

OpenFile(lines) == [status |-> "ok", lines |-> lines]

NoFile(why) == [status |-> why, lines |-> <<>>]

OpenFailures == {NoFile("missing"), NoFile("denied")}

\* PushParsed losing what was collected when a line yields nothing.
PushParsedAborts(acc, l, parsed) ==
    IF ~l.ok \/ parsed = None THEN <<>> ELSE Append(acc, parsed[1])

\* `.filter_map(|line| line.ok()).filter_map(|line| parse(&line))` followed
\* by collect(): what one line adds to the vector, given its parse result.
PushParsed(acc, l, parsed) ==
    IF ~l.ok THEN acc
    ELSE IF parsed = None THEN acc
    ELSE Append(acc, parsed[1])

Init ==
    /\ line = <<>>
    /\ fn = "idle"
    /\ out = None
    /\ valid = FALSE
    /\ home \in BOOLEAN
    /\ \E p \in SeqsUpTo(PrimaryLineChoices, MaxLines) :
         /\ primary \in IF home THEN {OpenFile(p)} \cup OpenFailures ELSE {NoFile("missing")}
         /\ \E f \in SeqsUpTo(FallbackLineChoices, MaxLines - Len(p)) :
              fallback \in IF home THEN {OpenFile(f)} \cup OpenFailures ELSE {NoFile("missing")}
    /\ opened = <<>>
    /\ pc = "start"
    /\ pos = 0
    /\ entries = <<>>
    /\ result = "none"
    /\ UiIdle

\* get_cli_stats_log_path()?: no home directory, the function returns Err.
NoHomeDir ==
    /\ pc = "start"
    /\ ~home
    /\ pc' = "done"
    /\ result' = "Err"
    /\ UNCHANGED <<home, primary, fallback, opened, pos, entries>>
    /\ UNCHANGED <<lineVars, uiVars>>

\* `if let Ok(file) = File::open(&stats_path)`: the primary log opens.
OpenPrimary ==
    /\ pc = "start"
    /\ home
    /\ primary.status = "ok"
    /\ opened' = Append(opened, "primary")
    /\ pc' = "read_primary"
    /\ pos' = 0
    /\ entries' = <<>>
    /\ UNCHANGED <<home, primary, fallback, result>>
    /\ UNCHANGED <<lineVars, uiVars>>

\* File::open of the primary log fails: on to the fallback.
OpenPrimaryFails ==
    /\ pc = "start"
    /\ home
    /\ primary.status # "ok"
    /\ opened' = Append(opened, "primary")
    /\ pc' = "open_fallback"
    /\ UNCHANGED <<home, primary, fallback, pos, entries, result>>
    /\ UNCHANGED <<lineVars, uiVars>>

\* One step of the iterator chain over the primary log.
ReadPrimaryLine ==
    /\ pc = "read_primary"
    /\ pos < Len(primary.lines)
    /\ pos' = pos + 1
    /\ entries' = PushParsed(entries, primary.lines[pos + 1],
                             parse_cli_stats_line(primary.lines[pos + 1].text))
    /\ UNCHANGED <<home, primary, fallback, opened, pc, result>>
    /\ UNCHANGED <<lineVars, uiVars>>

\* `if !entries.is_empty() { return Ok(entries); }`
ReturnPrimary ==
    /\ pc = "read_primary"
    /\ pos = Len(primary.lines)
    /\ entries # <<>>
    /\ pc' = "done"
    /\ result' = "Ok"
    /\ UNCHANGED <<home, primary, fallback, opened, pos, entries>>
    /\ UNCHANGED <<lineVars, uiVars>>

\* The primary log yielded no entry: its (empty) vector is dropped.
PrimaryEmpty ==
    /\ pc = "read_primary"
    /\ pos = Len(primary.lines)
    /\ entries = <<>>
    /\ pc' = "open_fallback"
    /\ UNCHANGED <<home, primary, fallback, opened, pos, entries, result>>
    /\ UNCHANGED <<lineVars, uiVars>>

\* `File::open(history_path).context(..)?` succeeds.
OpenFallback ==
    /\ pc = "open_fallback"
    /\ fallback.status = "ok"
    /\ opened' = Append(opened, "fallback")
    /\ pc' = "read_fallback"
    /\ pos' = 0
    /\ entries' = <<>>
    /\ UNCHANGED <<home, primary, fallback, result>>
    /\ UNCHANGED <<lineVars, uiVars>>

\* `File::open(history_path).context(..)?` fails: the function returns Err.
OpenFallbackFails ==
    /\ pc = "open_fallback"
    /\ fallback.status # "ok"
    /\ opened' = Append(opened, "fallback")
    /\ pc' = "done"
    /\ result' = "Err"
    /\ UNCHANGED <<home, primary, fallback, pos, entries>>
    /\ UNCHANGED <<lineVars, uiVars>>

\* ReadFallbackLine with the primary log's parser.
ReadFallbackLineAllTiers ==
    /\ pc = "read_fallback"
    /\ pos < Len(fallback.lines)
    /\ pos' = pos + 1
    /\ entries' = PushParsed(entries, fallback.lines[pos + 1],
                             parse_cli_stats_line(fallback.lines[pos + 1].text))
    /\ UNCHANGED <<home, primary, fallback, opened, pc, result>>
    /\ UNCHANGED <<lineVars, uiVars>>

\* One step of the iterator chain over the fallback history file.
ReadFallbackLine ==
    /\ pc = "read_fallback"
    /\ pos < Len(fallback.lines)
    /\ pos' = pos + 1
    /\ entries' = PushParsed(entries, fallback.lines[pos + 1],
                             parse_history_line(fallback.lines[pos + 1].text))
    /\ UNCHANGED <<home, primary, fallback, opened, pc, result>>
    /\ UNCHANGED <<lineVars, uiVars>>

\* `Ok(entries)` at the end of the function.
ReturnFallback ==
    /\ pc = "read_fallback"
    /\ pos = Len(fallback.lines)
    /\ pc' = "done"
    /\ result' = "Ok"
    /\ UNCHANGED <<home, primary, fallback, opened, pos, entries>>
    /\ UNCHANGED <<lineVars, uiVars>>

Next ==
    \/ NoHomeDir
    \/ OpenPrimary
    \/ OpenPrimaryFails
    \/ ReadPrimaryLine
    \/ ReturnPrimary
    \/ PrimaryEmpty
    \/ OpenFallback
    \/ OpenFallbackFails
    \/ ReadFallbackLine
    \/ ReturnFallback

Spec == Init /\ [][Next]_vars

(***************************************************************************)
(* Vocabulary of the claims.                                               *)
(***************************************************************************)
\* The parsers of src/history.rs, by the name SpecLine records in fn.
HistoryRsParsers == {"parse_cli_stats_line", "parse_history_line"}

AllParsers ==
    HistoryRsParsers \cup {"main_parse_cli_stats_line", "main_parse_history_line"}

Commands(es) == [i \in 1..Len(es) |-> es[i].command]

\* The pieces of s between occurrences of the token `&&`.
RECURSIVE SplitAnd(_)
SplitAnd(s) ==
    IF \E i \in 1..(Len(s) - 1) : s[i] = "&" /\ s[i + 1] = "&"
    THEN LET i == CHOOSE k \in 1..(Len(s) - 1) :
                      /\ s[k] = "&" /\ s[k + 1] = "&"
                      /\ \A j \in 1..(k - 1) : ~(s[j] = "&" /\ s[j + 1] = "&")
         IN  <<SubSeq(s, 1, i - 1)>> \o SplitAnd(SubSeq(s, i + 2, Len(s)))
    ELSE <<s>>

\* The trimmed, non-empty `&&`-separated pieces of s.
AndPieces(s) ==
    LET pieces == SplitAnd(s)
        NonEmpty(x) == x # <<>>
    IN  SelectSeq([i \in 1..Len(pieces) |-> Trim(pieces[i])], NonEmpty)

\* s holds p as a substring.
HasSub(s, p) == \E i \in 1..(Len(s) - Len(p) + 1) : SubSeq(s, i, i + Len(p) - 1) = p

\* The shape the specification gives a directory: starts with `/` or `~`
\* and holds neither `://` nor `github.com`.
PathShaped(p) ==
    /\ p # <<>>
    /\ p[1] \in {"/", "~"}
    /\ ~HasSub(p, <<":", "/", "/">>)
    /\ ~HasSub(p, <<"g", "i", "t", "h", "u", "b", ".", "c", "o", "m">>)

\* The number of occurrences of the character c in s.
Count(s, c) == Cardinality({i \in 1..Len(s) : s[i] = c})

\* The text of s before its first c (all of s when it has none).
Before(s, c) ==
    IF \E i \in 1..Len(s) : s[i] = c
    THEN SubSeq(s, 1, (CHOOSE i \in 1..Len(s) : s[i] = c /\ \A j \in 1..(i - 1) : s[j] # c) - 1)
    ELSE s

(***************************************************************************)
(* C1 - C4: the line parsers of src/history.rs.                            *)
(***************************************************************************)
\* C1: every parser of history.rs splits the extracted command on the token
\* `&&` and emits one entry per trimmed non-empty piece, all with the line's
\* timestamp and directory: no emitted command holds `&&`, and the line
\* `a && b` yields the two entries `a` and `b`.
C1_CompoundSplit ==
    fn \in HistoryRsParsers =>
        /\ \A i \in 1..Len(out) : ~HasSub(out[i].command, <<"&", "&">>)
        /\ line = ExCompoundPlain =>
              out = <<HistoryEntry(0, <<"a">>, None), HistoryEntry(0, <<"b">>, None)>>

\* C3: every entry parse_cli_stats_line or parse_history_line produces has a
\* command that is non-empty, not whitespace-only and equal to its trimmed
\* form.
C3_CommandTrimmed ==
    fn \in HistoryRsParsers =>
        \A i \in 1..Len(out) :
            /\ out[i].command # <<>>
            /\ Trim(out[i].command) # <<>>
            /\ Trim(out[i].command) = out[i].command

\* C4: a line with exactly two `|` (three pipe fields) whose first field
\* does not parse as an integer yields no entry from parse_cli_stats_line:
\* no later tier is tried.
C4_BadPipeTimestampDropsLine ==
    (/\ fn = "parse_cli_stats_line"
     /\ Count(line, "|") = 2
     /\ ~ParseI64(Before(line, "|")).ok)
        => out = None

\* C4 witness: an extended-history line whose command holds two `|` has
\* been parsed and dropped.
C4_Witness ==
    /\ fn = "parse_cli_stats_line"
    /\ line = <<":", " ", "1", ":", "0", ";", "a", "|", "|">>
    /\ out = None

(***************************************************************************)
(* C5 - C8: the colon and extended-history tiers, and directories.         *)
(***************************************************************************)
\* `<digits>:<p1>:...:<pn>` with n >= 2 and no part blank, not starting with
\* `: `, and not of the three-field pipe shape that is tried first.
ColonShaped(l) ==
    /\ ~StartsWith(l, <<":", " ">>)
    /\ Count(l, ":") >= 2
    /\ \A i \in 1..Len(Before(l, ":")) : IsDigit(l[i])
    /\ \A k \in 1..Len(Split(l, ":")) : Trim(Split(l, ":")[k]) # <<>>
    /\ Count(l, "|") # 2

\* C5: for a colon-delimited line the directory candidate is the last
\* colon-separated part and the command is all the parts between the
\* timestamp and it, rejoined with `:`; `123:echo a:b:/home/u` yields
\* command `echo a:b` with directory `/home/u`.
C5_ColonLastPartIsDirectory ==
    (fn = "parse_cli_stats_line" /\ ColonShaped(line)) =>
        LET parts == Split(line, ":")
            n     == Len(parts)
            cmd   == Trim(Join(SubSeq(parts, 2, n - 1), <<":">>))
            dir   == Trim(parts[n])
        IN  cmd # <<>> =>
              out = Some(HistoryEntry(ParseI64(parts[1]).val, cmd,
                                      IF PathShaped(dir) THEN Some(dir) ELSE None))

\* `: <ts>:0;<cmd>` with an integer <ts> and a non-empty <cmd>.
ExtTs(l) == Before(StripPrefix(l, <<":", " ">>), ":")

ExtCmd(l) == SubSeq(l, Len(ExtTs(l)) + 6, Len(l))

ExtHistoryShaped(l) ==
    /\ StartsWith(l, <<":", " ">>)
    /\ ParseI64(ExtTs(l)).ok
    /\ Len(l) >= Len(ExtTs(l)) + 6
    /\ SubSeq(l, Len(ExtTs(l)) + 3, Len(ExtTs(l)) + 5) = <<":", "0", ";">>

\* C6: an extended-history line `: <ts>:0;<cmd>` yields at least one entry,
\* every entry has timestamp <ts>, and there are as many entries as <cmd>
\* has non-empty `&&`-separated tokens.
C6_ExtendedHistoryCount ==
    (fn \in HistoryRsParsers /\ ExtHistoryShaped(line)) =>
        /\ Len(out) >= 1
        /\ \A i \in 1..Len(out) : out[i].timestamp = ParseI64(ExtTs(line)).val
        /\ Len(out) = Len(AndPieces(ExtCmd(line)))

\* C7: every entry of every line parser (history.rs and main.rs) has
\* directory None or a directory that starts with `/` or `~` and holds
\* neither `://` nor `github.com`.
C7_DirectoryShaped ==
    fn \in AllParsers =>
        \A i \in 1..Len(out) :
            out[i].directory = None \/ PathShaped(out[i].directory[1])

\* C8: is_valid_directory(p) is true exactly when p is non-empty, starts
\* with `/` or `~` and holds neither `://` nor `github.com`; it accepts
\* `/Users/x/proj` and `~/proj` and rejects the empty string.
C8_IsValidDirectoryIff ==
    fn = "is_valid_directory" =>
        /\ valid <=> PathShaped(line)
        /\ line = ExDirUsers => valid
        /\ line = ExDirHome => valid
        /\ line = <<>> => ~valid

\* C8 witness: a path that starts with `/` and holds `github.com` has been
\* rejected.
C8_Witness ==
    /\ fn = "is_valid_directory"
    /\ line = <<"/", "a", "/", "g", "i", "t", "h", "u", "b", ".", "c", "o", "m">>
    /\ ~valid

(***************************************************************************)
(* C2, C9, C10: get_history_entries over whole files.                      *)
(***************************************************************************)
\* The three lines of the scenario, as the primary log.
ScenarioFile ==
    OpenFile(<<OkLine(ScenarioLine1), OkLine(ScenarioLine2), OkLine(ScenarioLine3)>>)

\* C2 as stated: the scenario's three lines yield exactly 2 entries, `ls -la`
\* and `cd /tmp`, the middle line contributing none.
C2_ScenarioTwoEntries ==
    (pc = "done" /\ primary = ScenarioFile) =>
        /\ Len(entries) = 2
        /\ Commands(entries) = <<CmdLsLa, CmdCdTmp>>

\* C2 amended: the scenario's three lines yield exactly 3 entries, `ls -la`,
\* `bad line with no structure @@` and `cd /tmp`; the middle line is taken by
\* the plain tier, with timestamp 0 and no directory.
C2_ScenarioThreeEntries ==
    (pc = "done" /\ primary = ScenarioFile) =>
        /\ result = "Ok"
        /\ Len(entries) = 3
        /\ Commands(entries) = <<CmdLsLa, ScenarioLine2, CmdCdTmp>>
        /\ entries[2] = HistoryEntry(0, ScenarioLine2, None)

\* C2 witness: the scenario has been read to the end.
C2_Witness ==
    /\ pc = "done"
    /\ primary = ScenarioFile
    /\ Len(entries) = 3

\* What one line of a file contributes on its own: nothing when it cannot
\* be read, else its parse result under the file's parser.
LineEntries(which, l) ==
    IF ~l.ok THEN <<>>
    ELSE IF which = "primary" THEN parse_cli_stats_line(l.text)
    ELSE parse_history_line(l.text)

\* The in-order concatenation of every line's own contribution.
RECURSIVE ConcatEntries(_, _)
ConcatEntries(which, lines) ==
    IF lines = <<>> THEN <<>>
    ELSE LineEntries(which, Head(lines)) \o ConcatEntries(which, Tail(lines))

\* The file the reader is in, or returned from.
FileOf(which) == IF which = "primary" THEN primary ELSE fallback

\* C9: the entry sequence is the in-order concatenation of each line's own
\* parse result, at every point of the read and at its end: a line that
\* yields nothing is skipped, the read goes on, file order is kept.
C9_EntriesAreConcatenation ==
    /\ pc = "read_primary" =>
          entries = ConcatEntries("primary", SubSeq(primary.lines, 1, pos))
    /\ pc = "read_fallback" =>
          entries = ConcatEntries("fallback", SubSeq(fallback.lines, 1, pos))
    /\ result = "Ok" =>
          entries = ConcatEntries(opened[Len(opened)], FileOf(opened[Len(opened)]).lines)

\* C9 witness: a line that yields nothing, between two lines that each yield
\* an entry, has been skipped and both entries returned in order.
C9_Witness ==
    /\ result = "Ok"
    /\ primary.lines = <<OkLine(ScenarioLine1), OkLine(ExBadTsPipe), OkLine(ScenarioLine3)>>
    /\ Commands(entries) = <<CmdLsLa, CmdCdTmp>>

\* C10: the primary log is read first and, when it opens and yields an
\* entry, its entries are returned and the fallback is never opened; else
\* the shell history is read with the extended-history/plain tier only:
\* every entry has no directory, and a line not starting with `: ` is one
\* plain command whatever delimiters it holds.
C10_PrimaryThenFallbackTier ==
    /\ opened \in {<<>>, <<"primary">>, <<"primary", "fallback">>}
    /\ result = "Ok" =>
          IF primary.status = "ok" /\ ConcatEntries("primary", primary.lines) # <<>>
          THEN /\ opened = <<"primary">>
               /\ entries = ConcatEntries("primary", primary.lines)
          ELSE /\ opened = <<"primary", "fallback">>
               /\ Len(entries) =
                     Cardinality({i \in 1..Len(fallback.lines) :
                                     /\ fallback.lines[i].ok
                                     /\ parse_history_line(fallback.lines[i].text) # None})
               /\ \A i \in 1..Len(entries) :
                     /\ entries[i].directory = None
                     /\ \E k \in 1..Len(fallback.lines) :
                           LET l == fallback.lines[k]
                           IN  /\ l.ok
                               /\ IF StartsWith(l.text, <<":", " ">>)
                                  THEN entries[i].timestamp = ParseI64(ExtTs(l.text)).val
                                  ELSE entries[i] = HistoryEntry(0, Trim(l.text), None)

\* C10 witness: the primary log opened but yielded nothing, and a
\* pipe-delimited line of the fallback came back as one plain command.
C10_Witness ==
    /\ result = "Ok"
    /\ primary = OpenFile(<<OkLine(ExBadTsPipe)>>)
    /\ opened = <<"primary", "fallback">>
    /\ entries = <<HistoryEntry(0, ScenarioLine1, None)>>

(***************************************************************************)
(* C11: when get_history_entries fails.                                    *)
(***************************************************************************)
\* C11: get_history_entries returns an error if and only if neither the
\* primary log nor the fallback history file can be opened; whenever at
\* least one of the two opens it returns Ok.
C11_ErrIffNeitherOpens ==
    pc = "done" =>
        (result = "Err" <=> (primary.status # "ok" /\ fallback.status # "ok"))

(***************************************************************************)
(* Local time. chrono's Local is modelled as a zone with a fixed offset    *)
(* `tz` from UTC, so that a timestamp always maps to a single local time   *)
(* (LocalResult::Single); daylight-saving transitions are not modelled.    *)
(***************************************************************************)
TzChoices == {0 - 18000, 0}

\* `dt.hour()` of `Local.timestamp_opt(ts, 0)`
LocalHour(ts) == ((ts + tz) % 86400) \div 3600

\* `dt.weekday().num_days_from_monday()`; 1970-01-01 was a Thursday
LocalWeekday(ts) == (((ts + tz) \div 86400) + 3) % 7

\* Monday 2026-11-02 00:00:00 UTC
Monday2026 == 20759 * 86400

\* usize::saturating_sub
saturating_sub(a, b) == IF a > b THEN a - b ELSE 0

Min2(a, b) == IF a < b THEN a ELSE b

\* The largest value of a function over a finite domain (Iterator::max).
MaxOf(f) == CHOOSE m \in {f[x] : x \in DOMAIN f} : \A x \in DOMAIN f : f[x] <= m

\* `str::split_whitespace().next()`: None when the string is blank.
FirstToken(s) ==
    LET t == TrimStart(s)
        white == {k \in 1..Len(t) : IsWhite(t[k])}
        stop == IF white = {} THEN Len(t) + 1
                ELSE CHOOSE k \in white : \A j \in white : k <= j
    IN  IF t = <<>> THEN None ELSE Some(SubSeq(t, 1, stop - 1))

(***************************************************************************)
(* SpecViewer: run_interactive_viewer of src/interactive.rs.               *)
(*                                                                         *)
(* vpc is "loop" at the head of the loop, "wait_detail" / "wait_list" at   *)
(* event::read() of the two modes, "exited" after the loop and its         *)
(* cleanup, "panicked" when an index or a subtraction failed, "failed"     *)
(* when a `?` returned an error from inside the loop.                      *)
(***************************************************************************)
\* "git status"
CmdGitStatus ==
    <<"g", "i", "t", " ", "s", "t", "a", "t", "u", "s">>

\* "git push"
CmdGitPush ==
    <<"g", "i", "t", " ", "p", "u", "s", "h">>

ViewerCommands == <<CmdLsLa, CmdGitStatus, CmdCdTmp, CmdGitPush, CmdEchoAB>>

\* Length of the longest sequence of entries with pairwise distinct commands.
MaxDistinct == 3

\* n entries with distinct commands, one hour apart.
DistinctEntries(n) ==
    [i \in 1..n |-> HistoryEntry(Monday2026 + 3600 * i, ViewerCommands[i], None)]

\* 24 runs of one command, one in every hour of a day.
HourlyEntries ==
    [i \in 1..24 |-> HistoryEntry(Monday2026 + 3600 * (i - 1), CmdLsLa, None)]

\* n runs of one command from the shell history without timestamps.
UntimedEntries(n) ==
    [i \in 1..n |-> HistoryEntry(0, CmdLsLa, None)]

\* Six runs of one command: three at 09h UTC, two at 10h, one at 11h.
SkewedEntries ==
    [i \in 1..6 |->
        HistoryEntry(Monday2026 + 3600 * (IF i <= 3 THEN 9 ELSE IF i <= 5 THEN 10 ELSE 11) + i,
                     CmdLsLa, None)]

ViewerEntrySeqs ==
    {DistinctEntries(n) : n \in 0..MaxDistinct}
        \cup {UntimedEntries(n) : n \in 1..MaxDistinct}
        \cup {HourlyEntries, SkewedEntries}

\* crossterm events: a key with its modifiers, or something that is no key.
KeyCodes == {"q", "Esc", "Up", "k", "Down", "j", "Enter", "l", "h", "c", "C", "x"}

Key(code, ctrl) == [key |-> TRUE, code |-> code, ctrl |-> ctrl]

Resize == [key |-> FALSE, code |-> "", ctrl |-> FALSE]

Events ==
    {Key(code, FALSE) : code \in KeyCodes} \cup {Key("c", TRUE), Key("q", TRUE), Resize}

\* event::poll(100ms) timing out
NoEvent == [key |-> FALSE, code |-> "timeout", ctrl |-> FALSE]

Blank == [kind |-> "blank"]

LineIdle ==
    /\ line = <<>>
    /\ fn = "idle"
    /\ out = None
    /\ valid = FALSE

DigitChars == <<"0", "1", "2", "3", "4", "5", "6", "7", "8", "9">>

\* format!("{:02}:00", hour)
FormatHour(hour) ==
    <<DigitChars[(hour \div 10) + 1], DigitChars[(hour % 10) + 1], ":", "0", "0">>

\* "No previous command"
NoPreviousCommand ==
    <<"N", "o", " ", "p", "r", "e", "v", "i", "o", "u", "s", " ",
      "c", "o", "m", "m", "a", "n", "d">>

\* "No next command"
NoNextCommand ==
    <<"N", "o", " ", "n", "e", "x", "t", " ", "c", "o", "m", "m", "a", "n", "d">>

\* The hours of a day in the order `hour_counts.iter().enumerate()` visits them.
HoursOfDay == [i \in 1..24 |-> i - 1]

\* `hour_counts` of display_detail_view: the runs of `command` with a
\* timestamp > 0, by local hour of day.
DetailHourCounts(es, command) ==
    [h \in 0..23 |->
        Cardinality({i \in 1..Len(es) :
                        /\ es[i].command = command
                        /\ es[i].timestamp > 0
                        /\ LocalHour(es[i].timestamp) = h})]

\* The peak threshold rounded up instead of truncated.
PeakThresholdCeil(max_count) == (2 * max_count + 2) \div 3

\* `2 * max_count / 3` on i32
PeakThreshold(max_count) == (2 * max_count) \div 3

\* The `Peak times:` list: the hours whose count exceeds the threshold.
PeakHours(hour_counts) ==
    LET threshold == PeakThreshold(MaxOf(hour_counts))
    IN  SelectSeq(HoursOfDay, LAMBDA h : hour_counts[h] > threshold)

\* What display_detail_view computes and draws for entries[current_index]
\* on a terminal of at least 80x24.
display_detail_view(es, index) ==
    LET entry == es[index + 1]
        hour_counts == DetailHourCounts(es, entry.command)
        peaks == PeakHours(hour_counts)
    IN  [kind |-> "detail",
         index |-> index,
         prev_cmd |-> IF index > 0 THEN es[index].command ELSE NoPreviousCommand,
         next_cmd |-> IF index < Len(es) - 1 THEN es[index + 2].command ELSE NoNextCommand,
         total_runs |-> Cardinality({i \in 1..Len(es) : es[i].command = entry.command}),
         hour_counts |-> hour_counts,
         max_count |-> MaxOf(hour_counts),
         peak_times |-> Join([i \in 1..Len(peaks) |-> FormatHour(peaks[i])],
                             <<",", " ">>)]

\* display_detail_view on a terminal below 80x24: only a notice is drawn.
TooSmall == [kind |-> "too_small"]

\* The viewer starting on the first entry.
StartIndexFirst(len) == 0

\* `entries.len().saturating_sub(1)`: the index the viewer starts on.
StartIndex(len) == saturating_sub(len, 1)

\* The state after the terminal set-up and the two `let mut`.
InitViewer ==
    /\ LineIdle
    /\ FileIdle
    /\ tz \in TzChoices
    /\ term = "raw"
    /\ ventries \in ViewerEntrySeqs
    /\ current_index = StartIndex(Len(ventries))
    /\ view_mode = Some(StartIndex(Len(ventries)))
    /\ vpc = "loop"
    /\ screen = Blank
    /\ StatsIdle

\* `&entries[detail_index]` with detail_index out of bounds: the thread
\* panics before anything is drawn.
DetailIndexPanics ==
    /\ vpc = "loop"
    /\ view_mode # None
    /\ view_mode[1] >= Len(ventries)
    /\ vpc' = "panicked"
    /\ UNCHANGED <<tz, term, ventries, current_index, view_mode, screen>>
    /\ UNCHANGED <<lineVars, fileVars, statVars>>

\* The detail branch of the loop up to event::read().
RenderDetail ==
    /\ vpc = "loop"
    /\ view_mode # None
    /\ view_mode[1] < Len(ventries)
    /\ \E small \in BOOLEAN :
         screen' = IF small THEN TooSmall
                   ELSE display_detail_view(ventries, view_mode[1])
    /\ vpc' = "wait_detail"
    /\ UNCHANGED <<tz, term, ventries, current_index, view_mode>>
    /\ UNCHANGED <<lineVars, fileVars, statVars>>

\* Input handling of the detail view on the event ev; ev2 is what
\* event::poll and the second event::read() see after a `c` or `C`.
DetailKeyOn(ev, ev2) ==
    /\ vpc = "wait_detail"
    /\ LET detail_index == view_mode[1]
       IN  IF ~ev.key THEN
               /\ vpc' = "loop"
               /\ UNCHANGED view_mode
           ELSE IF ev.code \in {"q", "Esc"} THEN
               /\ view_mode' = None
               /\ vpc' = "loop"
           ELSE IF ev.code \in {"Up", "k"} THEN
               /\ view_mode' = IF detail_index > 0 THEN Some(detail_index - 1)
                               ELSE view_mode
               /\ vpc' = "loop"
           ELSE IF ev.code \in {"Down", "j"} THEN
               IF Len(ventries) = 0 THEN
                   /\ vpc' = "panicked"
                   /\ UNCHANGED view_mode
               ELSE
                   /\ view_mode' = IF detail_index < Len(ventries) - 1
                                   THEN Some(detail_index + 1)
                                   ELSE view_mode
                   /\ vpc' = "loop"
           ELSE IF ev.code \in {"c", "C"} THEN
               /\ vpc' = IF ev2.key /\ ev2.code = "c" /\ ev2.ctrl THEN "exited"
                         ELSE "loop"
               /\ UNCHANGED view_mode
           ELSE
               /\ vpc' = "loop"
               /\ UNCHANGED view_mode
    /\ term' = IF vpc' = "exited" THEN "normal" ELSE term
    /\ UNCHANGED <<tz, ventries, current_index, screen>>
    /\ UNCHANGED <<lineVars, fileVars, statVars>>

\* What can follow a first event within the 100 ms of event::poll.
SecondEvents(ev) ==
    IF ev.key /\ ev.code \in {"c", "C"} THEN Events \cup {NoEvent} ELSE {NoEvent}

DetailKey ==
    \E ev \in Events : \E ev2 \in SecondEvents(ev) : DetailKeyOn(ev, ev2)

\* The list branch of the loop up to event::read().
RenderList ==
    /\ vpc = "loop"
    /\ view_mode = None
    /\ LET start_idx == saturating_sub(current_index, 10 \div 2)
           end_idx == Min2(start_idx + 10, Len(ventries))
       IN  IF start_idx > end_idx THEN
               /\ vpc' = "panicked"
               /\ UNCHANGED screen
           ELSE
               /\ vpc' = "wait_list"
               /\ screen' = [kind |-> "list",
                             start_idx |-> start_idx,
                             end_idx |-> end_idx,
                             line_nums |-> [a \in start_idx..(end_idx - 1) |->
                                               Len(ventries) - a]]
    /\ UNCHANGED <<tz, term, ventries, current_index, view_mode>>
    /\ UNCHANGED <<lineVars, fileVars, statVars>>

\* Down in the list without the clamp to the last entry.
ListDownUnclamped(index, len) == index + 1

\* `(current_index + 1).min(entries.len().saturating_sub(1))`
ListDown(index, len) == Min2(index + 1, saturating_sub(len, 1))

\* Input handling of the list view on the event ev.
ListKeyOn(ev) ==
    /\ vpc = "wait_list"
    /\ IF ~ev.key THEN
           /\ vpc' = "loop"
           /\ UNCHANGED <<current_index, view_mode>>
       ELSE IF ev.code \in {"q", "Esc"} THEN
           /\ vpc' = "exited"
           /\ UNCHANGED <<current_index, view_mode>>
       ELSE IF ev.code \in {"Up", "k"} THEN
           /\ current_index' = saturating_sub(current_index, 1)
           /\ vpc' = "loop"
           /\ UNCHANGED view_mode
       ELSE IF ev.code \in {"Down", "j"} THEN
           /\ current_index' = ListDown(current_index, Len(ventries))
           /\ vpc' = "loop"
           /\ UNCHANGED view_mode
       ELSE IF ev.code \in {"Enter", "l"} THEN
           /\ view_mode' = Some(current_index)
           /\ vpc' = "loop"
           /\ UNCHANGED current_index
       ELSE IF ev.code = "c" /\ ev.ctrl THEN
           /\ vpc' = "exited"
           /\ UNCHANGED <<current_index, view_mode>>
       ELSE
           /\ vpc' = "loop"
           /\ UNCHANGED <<current_index, view_mode>>
    /\ term' = IF vpc' = "exited" THEN "normal" ELSE term
    /\ UNCHANGED <<tz, ventries, screen>>
    /\ UNCHANGED <<lineVars, fileVars, statVars>>

ListKey == \E ev \in Events : ListKeyOn(ev)

\* A `?` of the loop returning the error of a failed terminal call
\* (execute!, write!, flush, event::read, event::poll): the function
\* returns from inside the loop.
ViewerIoError ==
    /\ vpc \in {"loop", "wait_detail", "wait_list"}
    /\ IF vpc = "loop" /\ view_mode # None THEN view_mode[1] < Len(ventries)
       ELSE TRUE
    /\ vpc' = "failed"
    /\ UNCHANGED <<tz, term, ventries, current_index, view_mode, screen>>
    /\ UNCHANGED <<lineVars, fileVars, statVars>>

NextViewer ==
    \/ DetailIndexPanics
    \/ RenderDetail
    \/ DetailKey
    \/ RenderList
    \/ ListKey
    \/ ViewerIoError

SpecViewer == InitViewer /\ [][NextViewer]_vars

(***************************************************************************)
(* C12, C19: the interactive viewer.                                       *)
(***************************************************************************)
\* C12: with an empty entry sequence the interactive viewer reaches its
\* wait-for-input state and can be quit, with no failed index access and no
\* arithmetic underflow: it never panics.
C12_EmptyViewerNeverPanics ==
    (ventries = <<>> /\ vpc # "idle") => vpc # "panicked"

\* Hour h is listed in the `Peak times:` text on the screen.
ReportedPeak(h) == HasSub(screen.peak_times, FormatHour(h))

\* C19: in the per-command hourly breakdown hour h is reported as a peak
\* time if and only if count[h] > (2 * max_count) / 3 with truncating
\* division, max_count being the largest of the 24 buckets; when all 24
\* buckets equal 1 all 24 hours are peak, when every bucket is 0 none is.
C19_PeakIffAboveTwoThirds ==
    screen.kind = "detail" =>
        LET count == screen.hour_counts
            max_count == MaxOf(count)
        IN  /\ \A h \in 0..23 :
                  ReportedPeak(h) <=> (count[h] > (2 * max_count) \div 3)
            /\ (\A h \in 0..23 : count[h] = 1) =>
                  /\ (2 * max_count) \div 3 = 0
                  /\ \A h \in 0..23 : ReportedPeak(h)
            /\ (\A h \in 0..23 : count[h] = 0) => screen.peak_times = <<>>

\* C19 witness: the detail view of a command run once in every hour of the
\* day is on the screen, with all 24 hours listed as peak times.
C19_Witness ==
    /\ screen.kind = "detail"
    /\ \A h \in 0..23 : screen.hour_counts[h] = 1
    /\ \A h \in 0..23 : ReportedPeak(h)

(***************************************************************************)
(* f64 arithmetic, as IEEE 754 binary64 computes it (round to nearest,     *)
(* ties to even). A positive f64 is [l2, l1, l0, x]: its 53-digit binary   *)
(* significand in three limbs of 13, 20 and 20 digits, and the exponent x  *)
(* of its lowest digit; its value is (l2 * 2^40 + l1 * 2^20 + l0) * 2^x,   *)
(* with 2^12 <= l2 < 2^13.                                                 *)
(***************************************************************************)
Limb == 2^20

\* The f64 next above v (one unit in the last place up).
F64NextUp(v) ==
    LET a0 == v.l0 + 1
        a1 == v.l1 + (a0 \div Limb)
        a2 == v.l2 + (a1 \div Limb)
    IN  IF a2 = 2^13 THEN [l2 |-> 2^12, l1 |-> 0, l0 |-> 0, x |-> v.x + 1]
        ELSE [l2 |-> a2, l1 |-> a1 % Limb, l0 |-> a0 % Limb, x |-> v.x]

\* `a as f64 / b as f64` for integers 0 < a <= b < 2^11: the quotient
\* a * 2^z / b in [1, 2) is taken to 53 digits by long division, and the
\* remainder decides the rounding.
F64Div(a, b) ==
    LET z == CHOOSE k \in 0..11 : b <= a * 2^k /\ a * 2^k < 2 * b
        top == a * 2^z * 2^12
        l2 == top \div b
        r2 == top % b
        l1 == (r2 * Limb) \div b
        r1 == (r2 * Limb) % b
        l0 == (r1 * Limb) \div b
        r0 == (r1 * Limb) % b
        down == [l2 |-> l2, l1 |-> l1, l0 |-> l0, x |-> 0 - 52 - z]
    IN  IF 2 * r0 > b \/ (2 * r0 = b /\ l0 % 2 = 1) THEN F64NextUp(down) ELSE down

\* v * k for an f64 v and an integer 0 < k < 2^7 (held exactly by an f64):
\* the exact product has up to 60 digits, of which the lowest d are
\* rounded away.
F64MulInt(v, k) ==
    LET p0 == v.l0 * k
        p1 == v.l1 * k + (p0 \div Limb)
        p2 == v.l2 * k + (p1 \div Limb)
        q0 == p0 % Limb
        q1 == p1 % Limb
        d == CHOOSE n \in 0..7 : 2^(12 + n) <= p2 /\ p2 < 2^(13 + n)
        low == q0 % 2^d
        down == [l2 |-> p2 \div 2^d,
                 l1 |-> (q1 \div 2^d) + (p2 % 2^d) * 2^(20 - d),
                 l0 |-> (q0 \div 2^d) + (q1 % 2^d) * 2^(20 - d),
                 x |-> v.x + d]
    IN  IF d > 0 /\ (2 * low > 2^d \/ (2 * low = 2^d /\ down.l0 % 2 = 1))
        THEN F64NextUp(down) ELSE down

\* `v as usize` for an f64 v < 2^13: truncation toward zero
F64ToUsize(v) ==
    IF 0 - v.x >= 53 THEN 0 ELSE v.l2 \div 2^(0 - v.x - 40)

\* The category percentage computed on integers instead of f64.
CategoryPercentageExact(count, total) ==
    IF total = 0 THEN 0 ELSE (100 * count) \div total

\* `(*count as f64 / active_entries.len() as f64 * 100.0) as usize`, 0 for
\* an empty window
CategoryPercentage(count, total) ==
    IF total = 0 THEN 0
    ELSE F64ToUsize(F64MulInt(F64Div(count, total), 100))

(***************************************************************************)
(* Calendar arithmetic of chrono (proleptic Gregorian calendar), on day    *)
(* numbers counted from 1970-01-01.                                        *)
(***************************************************************************)
\* The date [y, m, d] of day number z.
CivilFromDays(z) ==
    LET zz == z + 719468
        era == zz \div 146097
        doe == zz - era * 146097
        yoe == (doe - (doe \div 1460) + (doe \div 36524) - (doe \div 146096)) \div 365
        doy == doe - (365 * yoe + (yoe \div 4) - (yoe \div 100))
        mp == (5 * doy + 2) \div 153
        m == IF mp < 10 THEN mp + 3 ELSE mp - 9
    IN  [y |-> yoe + era * 400 + (IF m <= 2 THEN 1 ELSE 0),
         m |-> m,
         d |-> doy - ((153 * mp + 2) \div 5) + 1]

\* The day number of the date y-m-d.
DaysFromCivil(y, m, d) ==
    LET yy == IF m <= 2 THEN y - 1 ELSE y
        era == yy \div 400
        yoe == yy - era * 400
        doy == ((153 * (IF m > 2 THEN m - 3 ELSE m + 9) + 2) \div 5) + d - 1
        doe == yoe * 365 + (yoe \div 4) - (yoe \div 100) + doy
    IN  era * 146097 + doe - 719468

\* `t.date_naive().and_hms_opt(0, 0, 0).unwrap().and_local_timezone(Local)
\* .unwrap().timestamp()`: the local midnight at or before t
LocalMidnight(t) == t - ((t + tz) % 86400)

\* `.with_day(1).unwrap().with_hour(0).unwrap().with_minute(0).unwrap()
\* .with_second(0).unwrap()` of the instant t, as a timestamp
StartOfMonth(t) ==
    LET c == CivilFromDays((t + tz) \div 86400)
    IN  DaysFromCivil(c.y, c.m, 1) * 86400 - tz

\* `next_month`, the start of the month after the one holding t
NextMonth(t) ==
    LET c == CivilFromDays((t + tz) \div 86400)
    IN  (IF c.m = 12 THEN DaysFromCivil(c.y + 1, 1, 1)
         ELSE DaysFromCivil(c.y, c.m + 1, 1)) * 86400 - tz

\* `start_of_week.timestamp()` for week offset k: today's local midnight
\* minus days_since_monday days minus 7 * k days.
StartOfWeek(t, k) ==
    LocalMidnight(t) - 86400 * LocalWeekday(t) - 86400 * (7 * k)

\* `end_of_week.timestamp()`: start_of_week + 7 days - 1 second
EndOfWeek(t, k) == StartOfWeek(t, k) + 86400 * 7 - 1

\* The week filter of a Week(k) view shifted to start one second late.
InWeekLateStart(e, t, k) ==
    e.timestamp > StartOfWeek(t, k) /\ e.timestamp <= EndOfWeek(t, k)

\* The week filter of a Week(k) view ending one second early.
InWeekEarlyEnd(e, t, k) ==
    e.timestamp >= StartOfWeek(t, k) /\ e.timestamp < EndOfWeek(t, k)

\* The week filter: `ts >= start_of_week.timestamp() && ts <=
\* end_of_week.timestamp()`
InWeek(e, t, k) ==
    e.timestamp >= StartOfWeek(t, k) /\ e.timestamp <= EndOfWeek(t, k)

\* `active_entries`: every entry in the lifetime view, the week's otherwise.
ActiveEntries(es, t, k) ==
    IF k < 0 THEN es ELSE SelectSeq(es, LAMBDA e : InWeek(e, t, k))

(***************************************************************************)
(* The figures display_stats of src/stats.rs computes in one iteration.    *)
(***************************************************************************)
\* The number of elements of a sequence that satisfy P (filter + count).
CountIf(s, P(_)) == Cardinality({i \in 1..Len(s) : P(s[i])})

\* The timestamps > 0 of a window.
ValidTimestamps(active) ==
    {active[i].timestamp : i \in {j \in 1..Len(active) : active[j].timestamp > 0}}

\* `oldest`: `.filter(|&ts| ts > 0).min().unwrap_or(0)`
Oldest(active) ==
    LET valid_ts == ValidTimestamps(active)
    IN  IF valid_ts = {} THEN 0
        ELSE CHOOSE t \in valid_ts : \A u \in valid_ts : t <= u

\* `newest`: `.filter(|&ts| ts > 0).max().unwrap_or(0)`
Newest(active) ==
    LET valid_ts == ValidTimestamps(active)
    IN  IF valid_ts = {} THEN 0
        ELSE CHOOSE t \in valid_ts : \A u \in valid_ts : t >= u

\* The days observed counted from the timestamps alone.
DaysObservedTimedOnly(active) ==
    LET oldest == Oldest(active)
        newest == Newest(active)
    IN  IF newest > 0 /\ oldest > 0 THEN ((newest - oldest) \div 86400) + 1
        ELSE 0

\* `days`, the days observed in the window
DaysObserved(active) ==
    LET oldest == Oldest(active)
        newest == Newest(active)
    IN  IF newest > 0 /\ oldest > 0 THEN ((newest - oldest) \div 86400) + 1
        ELSE IF Len(active) > 0 THEN 1
        ELSE 0

\* format!("{:.1}", num as f64 / den as f64): "0.0" for a zero numerator;
\* the decimal digits of any other quotient are kept as the quotient itself.
FormatF1(num, den) ==
    IF num = 0 THEN <<"0.0">> ELSE <<"{:.1}", num, den>>

\* The `Weekly average` of the lifetime view.
WeeklyAverage(active) ==
    LET days == DaysObserved(active)
    IN  IF days = 0 THEN <<"0">>
        ELSE FormatF1(CountIf(active, LAMBDA e : e.timestamp > 0), (days + 6) \div 7)

\* The `Commands per day` of a week view.
CommandsPerDay(active) ==
    LET days == DaysObserved(active)
    IN  IF days > 0 THEN FormatF1(Len(active), days) ELSE <<"0">>

\* The three-way comparison both trends use.
TrendLabel(cur, prev) ==
    IF cur > (prev * 12) \div 10 THEN "Increasing"
    ELSE IF cur < (prev * 8) \div 10 THEN "Decreasing"
    ELSE "Steady"

\* The lifetime trend asking for more than 11 entries.
LifetimeTrendLater(active) ==
    IF Len(active) > 11
    THEN LET halfway == Len(active) \div 2
             old_half_count == Min2(halfway, Len(active))
         IN  TrendLabel(Len(active) - old_half_count, old_half_count)
    ELSE "N/A"

\* The lifetime trend with the older part ending at a third of the entries.
LifetimeTrendThirds(active) ==
    IF Len(active) > 10
    THEN LET old_count == Min2(Len(active) \div 3, Len(active))
         IN  TrendLabel(Len(active) - old_count, old_count)
    ELSE "N/A"

\* `Usage trend` of the lifetime view.
LifetimeTrend(active) ==
    IF Len(active) > 10
    THEN LET halfway == Len(active) \div 2
             old_half_count == Min2(halfway, Len(active))
         IN  TrendLabel(Len(active) - old_half_count, old_half_count)
    ELSE "N/A"

\* `Usage trend` of a week view: the selected week against the week before.
WeekTrend(es, active, t, k) ==
    IF Len(active) > 10
    THEN TrendLabel(CountIf(es, LAMBDA e : InWeek(e, t, k)),
                    CountIf(es, LAMBDA e :
                        /\ e.timestamp >= StartOfWeek(t, k) - 86400 * 7
                        /\ e.timestamp <= EndOfWeek(t, k) - 86400 * 7))
    ELSE "N/A"

\* format_timestamp of src/history.rs; the strftime rendering of a nonzero
\* timestamp is kept as the pattern and the local time it is applied to.
format_timestamp(timestamp) ==
    IF timestamp = 0 THEN <<"Timestamp not available">>
    ELSE <<"%b %d %Y at %I:%M %P", timestamp + tz>>

\* `First command` / `Last command`
ActivityStamp(ts) == IF ts > 0 THEN format_timestamp(ts) ELSE <<"N/A">>

\* The orders in which a HashMap with key set S can be iterated: std's
\* HashMap hashes with per-process random keys, so any order can come out.
IterationOrders(S) ==
    {f \in [1..Cardinality(S) -> S] : \A i, j \in 1..Cardinality(S) : f[i] = f[j] => i = j}

\* `v.sort_by(|a, b| b.1.cmp(&a.1))`: a stable sort, descending by count,
\* of the keys in the order `order`.
StableSortByCountDesc(order, count) ==
    LET n == Len(order)
        rank == [i \in 1..n |->
                    1 + Cardinality({j \in 1..n :
                            \/ count[order[j]] > count[order[i]]
                            \/ (count[order[j]] = count[order[i]] /\ j < i)})]
    IN  [r \in 1..n |-> order[CHOOSE i \in 1..n : rank[i] = r]]

\* The keys of `command_counts`.
CommandKeys(active) == {active[i].command : i \in 1..Len(active)}

\* "other"
Other == <<"o", "t", "h", "e", "r">>

\* `entry.command.split_whitespace().next().unwrap_or("other")`
Category(command) ==
    IF FirstToken(command) = None THEN Other ELSE FirstToken(command)[1]

\* The keys of `categories`.
CategoryKeys(active) == {Category(active[i].command) : i \in 1..Len(active)}

\* `command_counts` after the sort: (command, count) pairs.
CommandRanking(active, order) ==
    LET count == [c \in CommandKeys(active) |->
                     CountIf(active, LAMBDA e : e.command = c)]
        sorted == StableSortByCountDesc(order, count)
    IN  [r \in 1..Len(sorted) |-> [command |-> sorted[r], count |-> count[sorted[r]]]]

\* `categories` after the sort, with the percentage drawn beside each.
CategoryRanking(active, order) ==
    LET count == [c \in CategoryKeys(active) |->
                     CountIf(active, LAMBDA e : Category(e.command) = c)]
        sorted == StableSortByCountDesc(order, count)
    IN  [r \in 1..Len(sorted) |->
            [category |-> sorted[r],
             count |-> count[sorted[r]],
             percentage |-> CategoryPercentage(count[sorted[r]], Len(active))]]

\* `hour_counts`: the window's entries with a timestamp > 0, by local hour.
HourCounts(active) ==
    [h \in 0..23 |->
        CountIf(active, LAMBDA e : e.timestamp > 0 /\ LocalHour(e.timestamp) = h)]

\* The weekday buckets counting every entry of the window.
DayOfWeekCountsAll(active) ==
    [d \in 0..6 |-> CountIf(active, LAMBDA e : LocalWeekday(e.timestamp) = d)]

\* `day_of_week_counts`: the window's entries with a timestamp > 0, by
\* local weekday, Monday first.
DayOfWeekCounts(active) ==
    [d \in 0..6 |->
        CountIf(active, LAMBDA e : e.timestamp > 0 /\ LocalWeekday(e.timestamp) = d)]

\* The index of the maximum, the first one when several are equal.
MaxByKeyFirst(f) ==
    CHOOSE i \in DOMAIN f :
        /\ \A j \in DOMAIN f : f[j] <= f[i]
        /\ \A j \in DOMAIN f : j < i => f[j] < f[i]

\* `.iter().enumerate().max_by_key(|&(_, count)| count)`: the index of the
\* maximum, the last one when several are equal.
MaxByKey(f) ==
    CHOOSE i \in DOMAIN f :
        /\ \A j \in DOMAIN f : f[j] <= f[i]
        /\ \A j \in DOMAIN f : j > i => f[j] < f[i]

NoneText == <<"N", "o", "n", "e">>

\* `Peak hour:` text after the label
PeakHourText(hour_counts) ==
    LET peak_hour == MaxByKey(hour_counts)
    IN  IF hour_counts[peak_hour] > 0 THEN FormatHour(peak_hour) ELSE NoneText

Weekdays ==
    <<"Monday", "Tuesday", "Wednesday", "Thursday", "Friday", "Saturday", "Sunday">>

\* The name of the weekday max_by_key returns, whatever its count.
PeakDayTextUnguarded(day_counts) ==
    Weekdays[MaxByKey(day_counts) + 1]

\* `Peak day:` text after the label
PeakDayText(day_counts) ==
    LET peak_day_idx == MaxByKey(day_counts)
    IN  IF day_counts[peak_day_idx] > 0 THEN Weekdays[peak_day_idx + 1] ELSE "None"

\* The sum of the seven weekday buckets.
TotalDaysCount(day_counts) ==
    day_counts[0] + day_counts[1] + day_counts[2] + day_counts[3]
        + day_counts[4] + day_counts[5] + day_counts[6]

\* Day distribution: `count * 100 / total_days_count.max(1)`, 0 when the
\* total is 0.
DayPercentages(day_counts) ==
    LET total_days_count == TotalDaysCount(day_counts)
    IN  [d \in 0..6 |->
            IF total_days_count = 0 THEN 0
            ELSE (day_counts[d] * 100) \div total_days_count]

\* What one iteration of the loop computes and draws for the entries es at
\* time t in the view k, the two rankings apart.
StatsFigures(es, t, k) ==
    LET active == ActiveEntries(es, t, k)
        this_week_start == IF k >= 0 THEN StartOfWeek(t, k) ELSE StartOfWeek(t, 0)
        this_week_end == IF k >= 0 THEN EndOfWeek(t, k) ELSE EndOfWeek(t, 0)
        selected_week_day ==
            IF k >= 0 THEN t - 86400 * LocalWeekday(t) - 86400 * (7 * k) ELSE t
        this_month_start == StartOfMonth(selected_week_day)
        this_month_end == NextMonth(selected_week_day) - 1
        today_start == LocalMidnight(t)
        hour_counts == HourCounts(active)
        day_of_week_counts == DayOfWeekCounts(active)
    IN  [kind |-> "stats",
         week_offset |-> k,
         active_entries |-> active,
         commands |-> Len(active),
         commands_today |-> CountIf(es, LAMBDA e : e.timestamp >= today_start),
         commands_this_week |->
             CountIf(es, LAMBDA e : e.timestamp >= this_week_start
                                       /\ e.timestamp <= this_week_end),
         commands_this_month |->
             CountIf(es, LAMBDA e : e.timestamp >= this_month_start
                                       /\ e.timestamp <= this_month_end),
         days |-> DaysObserved(active),
         average |-> IF k < 0 THEN WeeklyAverage(active) ELSE CommandsPerDay(active),
         unique_commands |-> Cardinality(CommandKeys(active)),
         trend |-> IF k < 0 THEN LifetimeTrend(active) ELSE WeekTrend(es, active, t, k),
         first_command |-> ActivityStamp(Oldest(active)),
         last_command |-> ActivityStamp(Newest(active)),
         hour_counts |-> hour_counts,
         peak_hour |-> PeakHourText(hour_counts),
         day_of_week_counts |-> day_of_week_counts,
         peak_day |-> PeakDayText(day_of_week_counts),
         day_percentages |-> DayPercentages(day_of_week_counts)]

\* The two rankings, the two HashMaps iterating in the given orders.
StatsRankings(active, cmd_order, cat_order) ==
    [command_counts |-> CommandRanking(active, cmd_order),
     categories |-> CategoryRanking(active, cat_order)]

(***************************************************************************)
(* SpecStats: display_stats of src/stats.rs.                               *)
(*                                                                         *)
(* spc is "loop" at the head of the loop, "wait_key" at event::read() of   *)
(* the full view, "wait_small" at event::read() of the too-small notice,   *)
(* "exited" after the loop and its cleanup, "failed" when a `?` returned an *)
(* error from inside the loop. The clock is read once: `now` does not      *)
(* advance while the view is open.                                         *)
(***************************************************************************)
\* The deepest week the model walks back to.
MaxOffset == 5

\* The longest entry sequence drawn from StatsEntryChoices.
MaxEntries == 2

\* Tuesday 2026-11-03 10:30:00 UTC
Now2026 == Monday2026 + 86400 + 37800

\* Tuesday 10:30:00 UTC of the week MaxOffset weeks after the week that
\* holds the epoch (Monday 1969-12-29 to Sunday 1970-01-04).
NowEarly == (7 * MaxOffset - 3) * 86400 + 86400 + 37800

NowChoices == {Now2026, NowEarly}

\* "  ": a command of blanks, as the pipe tier lets through
CmdBlank ==
    <<" ", " ">>

\* Entries without timestamp, of this moment, and at either side of the
\* start of the current week.
StatsEntryChoices ==
    {HistoryEntry(0, CmdLsLa, None),
     HistoryEntry(now, CmdBlank, None),
     HistoryEntry(StartOfWeek(now, 0), CmdGitStatus, None),
     HistoryEntry(StartOfWeek(now, 0) - 1, CmdGitPush, None)}

\* 50 commands run now: 29 of git (15 `git status`, 14 `git push`), 21 `ls -la`.
CategorySample ==
    [i \in 1..50 |->
        HistoryEntry(now,
                     IF i > 29 THEN CmdLsLa
                     ELSE IF i % 2 = 1 THEN CmdGitStatus ELSE CmdGitPush,
                     None)]

\* Two commands on this week's Monday, one on last week's Thursday, one
\* without timestamp.
WeekdaySample ==
    <<HistoryEntry(StartOfWeek(now, 0), CmdGitStatus, None),
      HistoryEntry(0, CmdLsLa, None),
      HistoryEntry(StartOfWeek(now, 1) + 3 * 86400 + 15 * 3600, CmdGitPush, None),
      HistoryEntry(StartOfWeek(now, 0) + 60, CmdLsLa, None)>>

\* One command just inside and one just outside each end of the week
\* MaxOffset weeks back, and one just after the current week.
BoundarySample ==
    <<HistoryEntry(StartOfWeek(now, MaxOffset) - 1, CmdCdTmp, None),
      HistoryEntry(StartOfWeek(now, MaxOffset), CmdGitStatus, None),
      HistoryEntry(EndOfWeek(now, MaxOffset), CmdGitPush, None),
      HistoryEntry(EndOfWeek(now, MaxOffset) + 1, CmdLsLa, None),
      HistoryEntry(EndOfWeek(now, 0), CmdGitStatus, None),
      HistoryEntry(EndOfWeek(now, 0) + 1, CmdCdTmp, None)>>

\* One command on last week's Monday, then ten on this week's Monday.
TrendSample ==
    [i \in 1..11 |->
        HistoryEntry(IF i = 1 THEN StartOfWeek(now, 1) + 3600
                     ELSE StartOfWeek(now, 0) + 60 * i,
                     CmdLsLa, None)]

StatsEntrySeqs ==
    SeqsUpTo(StatsEntryChoices, MaxEntries)
        \cup {CategorySample, WeekdaySample, BoundarySample, TrendSample}

StatsKeyCodes == {"Esc", "q", "Left", "h", "Right", "l", "c", "x"}

StatsEvents ==
    {Key(code, FALSE) : code \in StatsKeyCodes} \cup {Key("c", TRUE), Resize}

InitStats ==
    /\ LineIdle
    /\ FileIdle
    /\ ViewIdle
    /\ tz \in TzChoices
    /\ term = "raw"
    /\ now \in NowChoices
    /\ sentries \in StatsEntrySeqs
    /\ week_offset = 0 - 1
    /\ spc = "loop"
    /\ stats = Blank

\* One iteration on a terminal of at least 100x20, up to event::read().
RenderStats ==
    /\ spc = "loop"
    /\ LET figures == StatsFigures(sentries, now, week_offset)
           active == figures.active_entries
       IN  \E cmd_order \in IterationOrders(CommandKeys(active)) :
           \E cat_order \in IterationOrders(CategoryKeys(active)) :
               stats' = figures @@ StatsRankings(active, cmd_order, cat_order)
    /\ spc' = "wait_key"
    /\ UNCHANGED <<tz, term, sentries, now, week_offset>>
    /\ UNCHANGED <<lineVars, fileVars, viewVars>>

\* One iteration on a smaller terminal: only the notice is drawn.
RenderStatsTooSmall ==
    /\ spc = "loop"
    /\ stats' = TooSmall
    /\ spc' = "wait_small"
    /\ UNCHANGED <<tz, term, sentries, now, week_offset>>
    /\ UNCHANGED <<lineVars, fileVars, viewVars>>

\* Right/l at the current week staying there.
GoForwardStopsAtCurrent(offset) ==
    IF offset > 0 THEN offset - 1 ELSE offset

\* Left/h: all-time -> current week -> previous weeks
GoBack(offset) ==
    IF offset < 0 THEN 0 ELSE offset + 1

\* Right/l: previous weeks -> current week -> all-time
GoForward(offset) ==
    IF offset > 0 THEN offset - 1
    ELSE IF offset = 0 THEN 0 - 1
    ELSE offset

\* The key handling of the full view on the event ev. Left/h is not offered
\* once the view is MaxOffset weeks back.
StatsKeyOn(ev) ==
    /\ spc = "wait_key"
    /\ (ev.key /\ ev.code \in {"Left", "h"}) => week_offset < MaxOffset
    /\ IF ev.key /\ ev.code \in {"Esc", "q"} THEN
           /\ spc' = "exited"
           /\ UNCHANGED week_offset
       ELSE IF ev.key /\ ev.code \in {"Left", "h"} THEN
           /\ week_offset' = GoBack(week_offset)
           /\ spc' = "loop"
       ELSE IF ev.key /\ ev.code \in {"Right", "l"} THEN
           /\ week_offset' = GoForward(week_offset)
           /\ spc' = "loop"
       ELSE IF ev.key /\ ev.code = "c" /\ ev.ctrl THEN
           /\ spc' = "exited"
           /\ UNCHANGED week_offset
       ELSE
           /\ spc' = "loop"
           /\ UNCHANGED week_offset
    /\ term' = IF spc' = "exited" THEN "normal" ELSE term
    /\ stats' = Blank
    /\ UNCHANGED <<tz, sentries, now>>
    /\ UNCHANGED <<lineVars, fileVars, viewVars>>

StatsKey == \E ev \in StatsEvents : StatsKeyOn(ev)

\* The key handling of the too-small notice on the event ev.
StatsSmallKeyOn(ev) ==
    /\ spc = "wait_small"
    /\ spc' = IF ev.key /\ (ev.code = "Esc" \/ (ev.code = "c" /\ ev.ctrl))
              THEN "exited" ELSE "loop"
    /\ term' = IF spc' = "exited" THEN "normal" ELSE term
    /\ stats' = Blank
    /\ UNCHANGED <<tz, sentries, now, week_offset>>
    /\ UNCHANGED <<lineVars, fileVars, viewVars>>

StatsSmallKey == \E ev \in StatsEvents : StatsSmallKeyOn(ev)

\* A `?` of the loop returning the error of a failed terminal call
\* (terminal::size, execute!, write!, flush, event::read): the function
\* returns from inside the loop.
StatsIoError ==
    /\ spc \in {"loop", "wait_key", "wait_small"}
    /\ spc' = "failed"
    /\ stats' = Blank
    /\ UNCHANGED <<tz, term, sentries, now, week_offset>>
    /\ UNCHANGED <<lineVars, fileVars, viewVars>>

NextStats ==
    \/ RenderStats
    \/ RenderStatsTooSmall
    \/ StatsKey
    \/ StatsSmallKey
    \/ StatsIoError

SpecStats == InitStats /\ [][NextStats]_vars

(***************************************************************************)
(* C13, C14: the stats view of entries without data.                       *)
(***************************************************************************)
\* C13: for an empty entry sequence the stats computation in every window
\* (Lifetime and every Week(offset)) produces commands count 0, Today / This
\* week / This month 0, unique commands 0, average 0, trend N/A, peak hour
\* None, peak day None, and every weekday percentage 0.
C13_EmptyEntriesAllZero ==
    (stats.kind = "stats" /\ sentries = <<>>) =>
        /\ stats.commands = 0
        /\ stats.commands_today = 0
        /\ stats.commands_this_week = 0
        /\ stats.commands_this_month = 0
        /\ stats.unique_commands = 0
        /\ stats.average = <<"0">>
        /\ stats.trend = "N/A"
        /\ stats.peak_hour = NoneText
        /\ stats.peak_day = "None"
        /\ \A d \in 0..6 : stats.day_percentages[d] = 0

\* C13 witness: the view of the week MaxOffset weeks back is drawn for an
\* empty entry sequence.
C13_Witness ==
    /\ stats.kind = "stats"
    /\ sentries = <<>>
    /\ stats.week_offset = MaxOffset
    /\ stats.peak_day = "None"

\* Every entry of the sequence has timestamp 0.
AllUntimed(es) == \A i \in 1..Len(es) : es[i].timestamp = 0

IsLocalMonday(s) ==
    /\ (s + tz) % 86400 = 0
    /\ (((s + tz) \div 86400) - 4) % 7 = 0

\* s is Monday 00:00:00 local time of the current week minus 7 * k days.
IsWeekStart(s, k) ==
    /\ IsLocalMonday(s)
    /\ s + 86400 * (7 * k) <= now
    /\ now < s + 86400 * (7 * k) + 86400 * 7

C16_UntimedOutsideWindows ==
    stats.kind = "stats" =>
        LET timed == SelectSeq(sentries, LAMBDA e : e.timestamp # 0)
            figures == StatsFigures(timed, now, stats.week_offset)
        IN  /\ stats.week_offset >= 0 =>
                   \A i \in 1..Len(stats.active_entries) :
                       stats.active_entries[i].timestamp # 0
            /\ stats.commands_today = figures.commands_today
            /\ stats.commands_this_week = figures.commands_this_week
            /\ stats.commands_this_month = figures.commands_this_month
            /\ stats.week_offset < 0 => stats.commands = Len(sentries)

(***************************************************************************)
(* C17, C18, C20: the rankings and the weekday distribution.               *)
(***************************************************************************)
\* The index at which command c first occurs in es.
FirstOccurrence(es, c) ==
    CHOOSE i \in 1..Len(es) :
        es[i].command = c /\ \A j \in 1..(i - 1) : es[j].command # c

\* C17: the Most Used Commands ranking groups the active window's entries by
\* exact command string and lists them in descending count order, commands
\* of equal count in the order of their first occurrence in the entry
\* sequence, so that the ranking is a function of the entry sequence alone.
C17_RankingByFirstOccurrence ==
    stats.kind = "stats" =>
        LET active == stats.active_entries
            ranking == stats.command_counts
        IN  /\ {ranking[r].command : r \in 1..Len(ranking)} = CommandKeys(active)
            /\ \A r \in 1..Len(ranking) :
                   ranking[r].count =
                       CountIf(active, LAMBDA e : e.command = ranking[r].command)
            /\ \A r, q \in 1..Len(ranking) :
                   r < q =>
                     \/ ranking[r].count > ranking[q].count
                     \/ /\ ranking[r].count = ranking[q].count
                        /\ FirstOccurrence(active, ranking[r].command)
                               < FirstOccurrence(active, ranking[q].command)

\* C18: each entry of the active window is counted under its command's first
\* whitespace-delimited token (`other` when there is none), and the
\* percentage shown for a category equals floor(100 * count / window_total);
\* each percentage is in 0..100 and the percentages sum to at most 100.
C18_CategoryPercentageFloor ==
    stats.kind = "stats" =>
        LET active == stats.active_entries
            categories == stats.categories
        IN  /\ {categories[r].category : r \in 1..Len(categories)}
                   = CategoryKeys(active)
            /\ \A r \in 1..Len(categories) :
                   /\ categories[r].count =
                          CountIf(active, LAMBDA e :
                              Category(e.command) = categories[r].category)
                   /\ categories[r].percentage =
                          CategoryPercentageExact(categories[r].count, Len(active))
                   /\ categories[r].percentage \in 0..100

C21_LifetimeTrendByHalves ==
    (stats.kind = "stats" /\ stats.week_offset < 0) =>
        LET len == Len(sentries)
            first_half == len \div 2
            second_half == len - first_half
        IN  stats.trend =
                IF len <= 10 THEN "N/A"
                ELSE IF 100 * second_half > 120 * first_half THEN "Increasing"
                ELSE IF 100 * second_half < 80 * first_half THEN "Decreasing"
                ELSE "Steady"

\* C21 witness: the Lifetime view of 11 entries shows the trend of 6 against 5.
C21_Witness ==
    /\ stats.kind = "stats"
    /\ stats.week_offset < 0
    /\ Len(sentries) = 11
    /\ stats.trend = "Steady"

\* C22: in a Week(offset) view the trend compares the number of entries in
\* the selected week (cur) with the number in the week before (prev):
\* Increasing when cur > prev * 12 / 10, Decreasing when cur < prev * 8 / 10,
\* Steady otherwise, in integer arithmetic; with fewer than 10 entries in the
\* selected week the label is N/A.
C22_WeekTrendFromTen ==
    (stats.kind = "stats" /\ stats.week_offset >= 0) =>
        LET start == StartOfWeek(now, stats.week_offset)
            cur == Len(stats.active_entries)
            prev == CountIf(sentries, LAMBDA e :
                        /\ e.timestamp >= start - 86400 * 7
                        /\ e.timestamp <= start - 1)
        IN  stats.trend =
                IF cur < 10 THEN "N/A"
                ELSE IF cur > (prev * 12) \div 10 THEN "Increasing"
                ELSE IF cur < (prev * 8) \div 10 THEN "Decreasing"
                ELSE "Steady"

C23_TerminalReleasedOnEveryPath ==
    (spc \in {"exited", "failed"} \/ vpc \in {"exited", "failed", "panicked"})
        => term = "normal"

\* The window the claim gives for event ev pressed in window offset.
ClaimedWindow(ev, offset) ==
    IF ev.key /\ ev.code \in {"Left", "h"}
    THEN (IF offset = 0 - 1 THEN 0 ELSE offset + 1)
    ELSE IF ev.key /\ ev.code \in {"Right", "l"}
    THEN (IF offset >= 1 THEN offset - 1 ELSE 0 - 1)
    ELSE offset

\* C24: the selected window of the stats view is always Lifetime
\* (week_offset = -1) or Week(k) with k >= 0; it starts at Lifetime; Left/h
\* moves Lifetime -> Week(0) and Week(k) -> Week(k+1); Right/l moves
\* Week(k+1) -> Week(k), Week(0) -> Lifetime and leaves Lifetime unchanged,
\* so Right/l undoes Left/h; every other key leaves the window unchanged.
C24_WindowNavigation ==
    /\ week_offset = 0 - 1
    /\ [](week_offset >= 0 - 1)
    /\ [][\A ev \in StatsEvents :
            /\ StatsKeyOn(ev) =>
                   /\ week_offset' = ClaimedWindow(ev, week_offset)
                   /\ (ev.key /\ ev.code \in {"Left", "h"}) =>
                          GoForward(week_offset') = week_offset
            /\ StatsSmallKeyOn(ev) => week_offset' = week_offset]_vars

\* C24 witness: the loop is about to draw Week(2), two Left/h after Week(0).
C24_Witness ==
    /\ spc = "loop"
    /\ term = "raw"
    /\ week_offset = 2

\* C25: in every state of the stats view loop, the one where the terminal
\* is reported too small included, pressing Esc or q terminates the loop and
\* the function returns after cleanup.
C25_EscOrQAlwaysQuits ==
    [][\A ev \in StatsEvents :
          (ev.key /\ ev.code \in {"Esc", "q"}
              /\ (StatsKeyOn(ev) \/ StatsSmallKeyOn(ev)))
          => (spc' = "exited" /\ term' = "normal")]_vars

(***************************************************************************)
(* C26, C28: the modes and the indices of the interactive viewer.          *)
(***************************************************************************)
\* ev is the key Ctrl+c.
IsCtrlC(ev) == ev.key /\ ev.code = "c" /\ ev.ctrl

\* The key events with one of the given codes.
KeysOf(codes) == {ev \in Events : ev.key /\ ev.code \in codes}

\* C26: the viewer starts in detail mode on the last (most recent) entry; in
\* detail mode Esc or q returns to list mode and never leaves the loop; in
\* list mode Enter or l opens the detail of the selected entry, and q, Esc or
\* Ctrl+C leaves the loop; the loop is left from detail mode only through
\* the two-key gesture `c` then Ctrl+c.
C26_ViewerModes ==
    /\ vpc = "loop" =>
           /\ view_mode # None
           /\ ventries # <<>> => view_mode = Some(Len(ventries) - 1)
    /\ [][/\ \A ev \in KeysOf({"Esc", "q"}) :
               DetailKeyOn(ev, NoEvent) => (view_mode' = None /\ vpc' = "loop")
          /\ \A ev \in KeysOf({"Enter", "l"}) :
               ListKeyOn(ev) => (view_mode' = Some(current_index) /\ vpc' = "loop")
          /\ \A ev \in KeysOf({"q", "Esc"}) \cup {Key("c", TRUE)} :
               ListKeyOn(ev) => vpc' = "exited"
          /\ (vpc # "exited" /\ vpc' = "exited" /\ view_mode # None) =>
               /\ vpc = "wait_detail"
               /\ \A ev \in Events : \A ev2 \in SecondEvents(ev) :
                      DetailKeyOn(ev, ev2) =>
                          (ev.key /\ ev.code \in {"c", "C"} /\ IsCtrlC(ev2))]_vars

\* C26 witness: the loop has been left from the detail mode of the second of
\* three entries, the terminal restored.
C26_Witness ==
    /\ vpc = "exited"
    /\ Len(ventries) = 3
    /\ view_mode = Some(1)
    /\ term = "normal"

\* C28: for every non-empty entry sequence and every sequence of key events
\* the list selection index and the detail index stay within 0..len-1 (Up at
\* index 0 and Down at index len-1 leave the index unchanged), indexing the
\* entries by them never goes out of bounds, and the 10-row list window
\* [start, end) contains the selected index.
C28_IndicesInBounds ==
    /\ [](ventries # <<>> =>
            /\ current_index \in 0..(Len(ventries) - 1)
            /\ view_mode # None => view_mode[1] \in 0..(Len(ventries) - 1)
            /\ vpc # "panicked"
            /\ vpc = "wait_list" =>
                   /\ screen.kind = "list"
                   /\ screen.start_idx <= current_index
                   /\ current_index < screen.end_idx
                   /\ screen.end_idx - screen.start_idx <= 10
                   /\ screen.end_idx <= Len(ventries))
    /\ [][ventries # <<>> =>
            /\ \A ev \in KeysOf({"Up", "k"}) :
                 /\ (current_index = 0 /\ ListKeyOn(ev)) => current_index' = 0
                 /\ (view_mode = Some(0) /\ DetailKeyOn(ev, NoEvent)) =>
                        view_mode' = view_mode
            /\ \A ev \in KeysOf({"Down", "j"}) :
                 /\ (current_index = Len(ventries) - 1 /\ ListKeyOn(ev)) =>
                        current_index' = current_index
                 /\ (view_mode = Some(Len(ventries) - 1) /\ DetailKeyOn(ev, NoEvent)) =>
                        view_mode' = view_mode]_vars

\* C28 witness: the list of 24 entries is drawn with entry 10 selected and
\* the rows 5..14 in the window.
C28_Witness ==
    /\ vpc = "wait_list"
    /\ Len(ventries) = 24
    /\ current_index = 10
    /\ screen.kind = "list"
    /\ screen.start_idx = 5
    /\ screen.end_idx = 15

(***************************************************************************)
(* C29, C30: the reported peaks and the tiling of the weeks.               *)
(***************************************************************************)
\* The highest index at which the function f over 0..n takes its maximum.
LastMaximum(f) ==
    CHOOSE i \in DOMAIN f : f[i] = MaxOf(f) /\ \A j \in DOMAIN f : f[j] = MaxOf(f) => j <= i

\* C29: the single reported peak hour (and peak weekday) of the stats view
\* is a bucket with the maximum count, the one with the highest index when
\* several buckets tie for the maximum; it is None exactly when the maximum
\* count is 0.
C29_PeakIsLastMaximum ==
    stats.kind = "stats" =>
        /\ stats.peak_hour =
               IF MaxOf(stats.hour_counts) = 0 THEN NoneText
               ELSE FormatHour(LastMaximum(stats.hour_counts))
        /\ stats.peak_day =
               IF MaxOf(stats.day_of_week_counts) = 0 THEN "None"
               ELSE Weekdays[LastMaximum(stats.day_of_week_counts) + 1]

\* C29 witness: one command on Monday at 00:00 and one on Tuesday later in
\* the day tie in both distributions; Tuesday and the later hour are shown.
C29_Witness ==
    /\ stats.kind = "stats"
    /\ stats.day_of_week_counts[0] = 1
    /\ stats.day_of_week_counts[1] = 1
    /\ stats.peak_day = "Tuesday"
    /\ stats.hour_counts[0] = 1
    /\ stats.hour_counts[LocalHour(now)] = 1
    /\ stats.peak_hour = FormatHour(LocalHour(now))

\* The week, counted back from the current one, that holds timestamp ts.
WeekIndex(ts) == (EndOfWeek(now, 0) - ts) \div (86400 * 7)

\* C30: the week windows tile time without gap or overlap: for every offset
\* k >= 0 the window of Week(k+1) ends exactly one second before the window
\* of Week(k) starts, so every timestamp not later than the end of the
\* current week belongs to exactly one Week(k), and an entry is never
\* counted in two different week views.
C30_WeeksTile ==
    (stats.kind = "stats" /\ stats.week_offset >= 0) =>
        LET k == stats.week_offset
        IN  /\ EndOfWeek(now, k + 1) + 1 = StartOfWeek(now, k)
            /\ stats.active_entries =
                   SelectSeq(sentries, LAMBDA e :
                       e.timestamp <= EndOfWeek(now, 0) /\ WeekIndex(e.timestamp) = k)

\* C30 witness: the view of the week MaxOffset - 1 weeks back holds, of the
\* commands run at the last second of week MaxOffset and at the first second
\* of week MaxOffset - 1, only the second.
C30_Witness ==
    /\ stats.kind = "stats"
    /\ stats.week_offset = MaxOffset - 1
    /\ sentries = BoundarySample
    /\ stats.active_entries = <<BoundarySample[4]>>

====
